---- MODULE Spec2Model ----
(***************************************************************************)
(* FoodieVent (a2_group11/website): the Status Engine (events.live_status) *)
(* and the Inventory Ledger (orders.purchase_tickets, orders.cancel_order, *)
(* events.update) over the persistence store (models.Event, models.Order). *)
(*                                                                         *)
(* A state is the committed content of the store plus the position of the  *)
(* request being served.  Every handler that ends with a call of           *)
(* live_status() commits twice: once for its own writes and once at the    *)
(* end of live_status().  The first commit leaves pc = "live_status", and  *)
(* the only request step then enabled is that trailing pass.               *)
(*                                                                         *)
(* The clock counts ticks: the handlers only compare now with end_time, so *)
(* only the order of the time points matters.                              *)
(*                                                                         *)
(* Specifications:                                                         *)
(*   Spec        the handlers, one request at a time, on an empty store    *)
(*   SpecEngine  live_status and the clock on any store                    *)
(*   SpecStore   the handlers on a stored event in any status, and a pass  *)
(*               whose commit can fail                                     *)
(*   SpecBoth    the same, every update post with both flags set           *)
(*   SpecRace    two purchase requests served interleaved                  *)
(*   SpecSigned  the handlers on form inputs with a sign                   *)
(*   SpecForms   two create requests served interleaved, on forms with a   *)
(*               title and a start time                                    *)
(*   SpecRegister  the password validator of the register form            *)
(*   SpecEdit    the update page opened, then posted after other requests  *)
(*   SpecHeal    a pass served interleaved with purchases and              *)
(*               cancellations                                             *)
(***************************************************************************)
EXTENDS Integers, Sequences, FiniteSets, TLC

\* ------------------------------------------------------------------ bounds
MaxTime == 2        \* the clock runs over 0..MaxTime
MaxOrders == 2      \* orders created at most
MaxStock == 3       \* total_tickets is kept in -MaxStock..MaxStock

\* ------------------------------------------------------------------ inputs
EventIds == {1, 2}          \* ids of the events the runs create
Users == {1}                \* current_user.id of the requests
Prices == {2}               \* ticket_price typed into the event form
TicketInputs == {0, 2}      \* total_tickets typed into the event form
EndInputs == {1, 2}         \* end_time typed into the event form
QtyInputs == {0, 1, 2}      \* tickets_purchased typed into the purchase form

\* ------------------------------------------------------------ models.py
OPEN == "Open"
INACTIVE == "Inactive"
SOLDOUT == "Soldout"
CANCELLED == "Cancelled"
ACTIVE == "Active"

EventStatus == {OPEN, INACTIVE, SOLDOUT, CANCELLED}
TicketStatus == {ACTIVE, INACTIVE, CANCELLED}

VARIABLES
    events,     \* table events: sequence of Event rows, id = index
    orders,     \* table orders: sequence of Order rows, id = index
    now,        \* datetime.now()
    pc,         \* "idle", or "live_status": a handler has committed and is
                \* about to make its trailing call of live_status()
    last,       \* the last step: the handler that ran and how it ended
    restocked,  \* ids of the orders whose tickets cancel_order has put back
    cancelled,  \* ids of the orders that are or have been CANCELLED
    sessions    \* per concurrent request: where it stands and what it
                \* holds (the row its db.session has loaded, its form)

vars == <<events, orders, now, pc, last, restocked, cancelled, sessions>>

\* the requests that may be served at the same time, each with a
\* db.session of its own
Requests == {1, 2}

\* a request that is not being served
NoRequest == [at |-> "idle"]

\* the orders whose ticket_status is CANCELLED (models.py 32, 92)
Cancelled(ords) == {i \in DOMAIN ords : ords[i].ticket_status = CANCELLED}

\* ------------------------------------------------ events.py: live_status
\* variant of EventNewStatus: the inventory test comes first, so that an
\* empty CANCELLED event is SOLDOUT
EventNewStatusSoldoutFirst(event, t) ==
    IF event.total_tickets <= 0 THEN SOLDOUT
    ELSE IF event.status = CANCELLED
    THEN IF t > event.end_time THEN INACTIVE ELSE CANCELLED
    ELSE IF t <= event.end_time THEN OPEN
    ELSE INACTIVE

\* variant of EventNewStatus: an event that is SOLDOUT stays SOLDOUT
EventNewStatusSoldoutKept(event, t) ==
    IF event.status = CANCELLED
    THEN IF t > event.end_time THEN INACTIVE ELSE CANCELLED
    ELSE IF event.total_tickets <= 0 \/ event.status = SOLDOUT THEN SOLDOUT
    ELSE IF t <= event.end_time THEN OPEN
    ELSE INACTIVE

\* lines 205-221: the status an event gets in a pass at time t
EventNewStatus(event, t) ==
    IF event.status = CANCELLED
    THEN IF t > event.end_time THEN INACTIVE ELSE CANCELLED
    ELSE IF event.total_tickets <= 0 THEN SOLDOUT
    ELSE IF t <= event.end_time THEN OPEN
    ELSE INACTIVE

\* variant of LiveEvent: a negative total_tickets is written back as 0
LiveEventTicketsFloored(event, t) ==
    LET new_status == EventNewStatus(event, t)
        floored == [event EXCEPT !.total_tickets = IF @ < 0 THEN 0 ELSE @] IN
    IF event.status # new_status
    THEN [floored EXCEPT !.status = new_status, !.status_date = t]
    ELSE floored

\* lines 223-227: status and status_date written only on a change
LiveEvent(event, t) ==
    LET new_status == EventNewStatus(event, t) IN
    IF event.status # new_status
    THEN [event EXCEPT !.status = new_status, !.status_date = t]
    ELSE event

LiveEvents(evs, t) == [i \in DOMAIN evs |-> LiveEvent(evs[i], t)]

\* variant of OrderNewStatus: an order on a running event is ACTIVE, whatever
\* its ticket_status was
OrderNewStatusByTime(order, event_order, t) ==
    IF event_order.status = CANCELLED THEN CANCELLED
    ELSE IF event_order.status = INACTIVE THEN INACTIVE
    ELSE IF t <= event_order.end_time THEN ACTIVE
    ELSE INACTIVE

\* variant of OrderNewStatus: a CANCELLED order on an event that is neither
\* CANCELLED nor INACTIVE stays CANCELLED, also after end_time
OrderNewStatusCancelledKept(order, event_order, t) ==
    IF event_order.status = CANCELLED THEN CANCELLED
    ELSE IF event_order.status = INACTIVE THEN INACTIVE
    ELSE IF order.ticket_status = CANCELLED THEN CANCELLED
    ELSE IF t <= event_order.end_time THEN ACTIVE
    ELSE INACTIVE

\* lines 232-258: event_order is the order's event as the first loop left it
OrderNewStatus(order, event_order, t) ==
    IF event_order.status = CANCELLED THEN CANCELLED
    ELSE IF event_order.status = INACTIVE THEN INACTIVE
    ELSE IF order.ticket_status = CANCELLED
         THEN IF t > event_order.end_time THEN INACTIVE ELSE CANCELLED
    ELSE IF t <= event_order.end_time THEN ACTIVE
    ELSE INACTIVE

\* variant of LiveOrders: the orders are evaluated against the events as they
\* were before the first loop
LiveOrdersStale(ords, evs, t) ==
    [i \in DOMAIN ords |->
        [ords[i] EXCEPT !.ticket_status =
            OrderNewStatus(ords[i], events[ords[i].event_id], t)]]

\* variant of LiveOrders: an order that is not ACTIVE any more is refunded,
\* its purchased_amount set to 0
LiveOrdersRefunded(ords, evs, t) ==
    [i \in DOMAIN ords |->
        LET new_status == OrderNewStatus(ords[i], evs[ords[i].event_id], t) IN
        [ords[i] EXCEPT !.ticket_status = new_status,
                        !.purchased_amount = IF new_status = ACTIVE THEN @ ELSE 0]]

\* lines 230-261: the second loop, over every order
LiveOrders(ords, evs, t) ==
    [i \in DOMAIN ords |->
        [ords[i] EXCEPT !.ticket_status =
            OrderNewStatus(ords[i], evs[ords[i].event_id], t)]]

\* variant of Rollback: what the pass had flushed stays in the store
RollbackKeepsFlushed(committed, flushed) == flushed

\* __init__.py 55-60: the 500 handler rolls the session back; the rows are
\* the committed ones, whatever the request had assigned or flushed
Rollback(committed, flushed) == committed

\* lines 197-264: one pass.  Both loops assign in the session and line 264
\* is the only commit; raised: that commit fails and the request ends in the
\* 500 handler.
LiveStatus(raised) ==
    /\ LET evs == LiveEvents(events, now)
           ords == LiveOrders(orders, evs, now)
       IN IF raised
          THEN /\ events' = Rollback(events, evs)
               /\ orders' = Rollback(orders, ords)
               /\ last' = "live_status error"
          ELSE /\ events' = evs
               /\ orders' = ords
               /\ last' = "live_status"
    /\ cancelled' = cancelled \cup Cancelled(orders')
    /\ pc' = "idle"
    /\ UNCHANGED <<now, restocked, sessions>>

\* a pass whose commit succeeds; also every read handler (views.index,
\* events.show, users.display_booking_history, ...), which only calls it
live_status == LiveStatus(FALSE)

\* ------------------------------------------- orders.py: purchase_tickets
\* forms.py 317-320: IntegerField with DataRequired accepts any integer but 0
PurchaseFormValid(q) == q # 0

\* variant of Insufficient: one ticket too many is let through
InsufficientLax(q, event) == q > event.total_tickets + 1

\* line 50
Insufficient(q, event) == q > event.total_tickets

\* lines 57-70
NewOrder(e, u, q, event) ==
    [event_id |-> e, user_id |-> u, tickets_purchased |-> q,
     purchase_ticket_price |-> event.ticket_price,
     purchased_amount |-> event.ticket_price * q,
     ticket_status |-> ACTIVE]

\* variant of Purchased: one ticket is taken, whatever the quantity
PurchasedOneTicket(event, q) ==
    LET left == event.total_tickets - 1 IN
    [event EXCEPT !.total_tickets = left,
                  !.status = IF left = 0 THEN SOLDOUT ELSE @]

\* variant of Purchased: the status is left to the next pass
PurchasedStatusLeft(event, q) ==
    [event EXCEPT !.total_tickets = @ - q]

\* lines 72-75
Purchased(event, q) ==
    LET left == event.total_tickets - q IN
    [event EXCEPT !.total_tickets = left,
                  !.status = IF left = 0 THEN SOLDOUT ELSE @]

purchase_tickets(u, e, q) ==
    /\ pc = "idle"
    /\ e \in DOMAIN events
    /\ UNCHANGED <<now, restocked, cancelled, sessions>>
    /\ IF ~PurchaseFormValid(q)
       THEN \* lines 86-87
            /\ UNCHANGED <<events, orders>>
            /\ pc' = "live_status"
            /\ last' = "purchase invalid"
       ELSE IF Insufficient(q, events[e])
       THEN \* lines 50-53: flash and redirect, no live_status()
            /\ UNCHANGED <<events, orders>>
            /\ pc' = "idle"
            /\ last' = "purchase insufficient"
       ELSE \* lines 55-83: the order and the event go into one commit
            \/ /\ Len(orders) < MaxOrders
               /\ events[e].total_tickets - q <= MaxStock
               /\ orders' = Append(orders, NewOrder(e, u, q, events[e]))
               /\ events' = [events EXCEPT ![e] = Purchased(events[e], q)]
               /\ pc' = "live_status"
               /\ last' = "purchase ok"
            \* line 79 raises: server_error (__init__.py 55-60) rolls back
            \/ /\ UNCHANGED <<events, orders>>
               /\ pc' = "idle"
               /\ last' = "purchase error"

\* ----------------------------------------------- orders.py: cancel_order
\* line 24
Cancellable(order) == order.ticket_status # CANCELLED

\* variant of Restock: the tickets are not put back in the commit that
\* cancels the order
RestockLater(event, order) == event

\* variant of Restock: the tickets are put back twice
RestockTwice(event, order) ==
    [event EXCEPT !.total_tickets = @ + 2 * order.tickets_purchased]

\* line 27
Restock(event, order) ==
    [event EXCEPT !.total_tickets = @ + order.tickets_purchased]

cancel_order(u, o) ==
    /\ pc = "idle"
    /\ o \in DOMAIN orders
    /\ UNCHANGED <<now, sessions>>
    /\ pc' = "idle"
    /\ LET order == orders[o]
           e == order.event_id IN
       IF Cancellable(order)
       THEN \* lines 25-29: the order and the event go into one commit
            \/ /\ Restock(events[e], order).total_tickets \in (-MaxStock) .. MaxStock
               /\ orders' = [orders EXCEPT ![o].ticket_status = CANCELLED]
               /\ events' = [events EXCEPT ![e] = Restock(events[e], order)]
               /\ restocked' = restocked \cup {o}
               /\ cancelled' = cancelled \cup {o}
               /\ last' = "cancel_order cancelled"
            \* line 29 raises: server_error (__init__.py 55-60) rolls back
            \/ /\ UNCHANGED <<events, orders, restocked, cancelled>>
               /\ last' = "cancel_order error"
       ELSE \* line 32
            /\ UNCHANGED <<events, orders, restocked, cancelled>>
            /\ last' = "cancel_order noop"

\* ------------------------------------------------------ events.py: create
\* forms.py 253-255, 302-309: total_tickets DataRequired (any integer but 0),
\* ticket_price NumberRange(min=0), end_time after now
EventFormValid(f) ==
    /\ f.total_tickets # 0
    /\ f.ticket_price >= 0
    /\ f.end_time > now

\* what a creator may post: a ticket count, a price, an end time and the two
\* flags events.update reads (events.create reads neither)
CreateForms ==
    [total_tickets : TicketInputs, ticket_price : Prices, end_time : EndInputs,
     cancel_event : {FALSE}, reopen_event : {FALSE}]

UpdateForms ==
    [total_tickets : TicketInputs, ticket_price : Prices, end_time : {2},
     cancel_event : BOOLEAN, reopen_event : BOOLEAN]

\* the update posts that ask for a cancellation (events.py 120)
CancelForms == {f \in UpdateForms : f.cancel_event /\ ~f.reopen_event}

\* lines 46-62, with the column defaults of models.py 65-66
NewEvent(u, f) ==
    [status |-> OPEN, status_date |-> now,
     total_tickets |-> f.total_tickets, ticket_price |-> f.ticket_price,
     end_time |-> f.end_time, creator_id |-> u]

create(u, f) ==
    /\ pc = "idle"
    /\ UNCHANGED <<now, orders, restocked, cancelled, sessions>>
    /\ pc' = "live_status"
    /\ IF EventFormValid(f)
       THEN \* lines 42-69
            /\ Len(events) + 1 \in EventIds
            /\ events' = Append(events, NewEvent(u, f))
            /\ last' = "create ok"
       ELSE \* lines 71-72
            /\ UNCHANGED events
            /\ last' = "create invalid"

\* ------------------------------------------------------ events.py: update
\* forms.py 226-261: the fields class EventForm declares
EventFormFields ==
    {"event_id", "title", "description", "image", "start_time", "end_time",
     "venue", "vendor_names", "total_tickets", "ticket_price",
     "free_sampling", "provide_takeaway", "category_type", "submit"}

RECURSIVE SumOver(_, _, _)
\* sum(... for orders in active_orders), lines 133 and 135
SumOver(ords, ids, field) ==
    IF ids = {} THEN 0
    ELSE LET i == CHOOSE x \in ids : TRUE IN
         ords[i][field] + SumOver(ords, ids \ {i}, field)

\* lines 124-130
ActiveOrders(ords, e) ==
    {i \in DOMAIN ords : ords[i].event_id = e /\ ords[i].ticket_status = ACTIVE}

\* lines 100-111: the form's fields written onto the event
Edited(event, f) ==
    [event EXCEPT !.total_tickets = f.total_tickets,
                  !.ticket_price = f.ticket_price,
                  !.end_time = f.end_time]

\* lines 117-152: what the session holds when line 155 is reached
Updated(evs, ords, e, f) ==
    LET event == Edited(evs[e], f)
        prev_status == event.status
        active_orders == ActiveOrders(ords, e) IN
    IF f.cancel_event
    THEN IF prev_status # CANCELLED
         THEN [events |-> [evs EXCEPT ![e] =
                    [event EXCEPT !.total_tickets =
                        @ + SumOver(ords, active_orders, "tickets_purchased")]],
               orders |-> [i \in DOMAIN ords |->
                    IF i \in active_orders
                    THEN [ords[i] EXCEPT !.ticket_status = CANCELLED]
                    ELSE ords[i]]]
         ELSE [events |-> [evs EXCEPT ![e] = event], orders |-> ords]
    ELSE IF f.reopen_event /\ prev_status = CANCELLED
    THEN [events |-> [evs EXCEPT ![e] = [event EXCEPT !.status = OPEN]],
          orders |-> ords]
    ELSE [events |-> [evs EXCEPT ![e] = event], orders |-> ords]

\* variant of Raises: the form has both fields, no read of them raises
RaisesNever(f) == FALSE

\* lines 120 and 147 read form.cancel_event and form.reopen_event.  A field
\* that EventForm does not declare is no attribute of the form: the read
\* raises AttributeError, and the 500 handler (__init__.py 55-60) rolls the
\* session back.
Raises(f) ==
    \/ "cancel_event" \notin EventFormFields
    \/ ~f.cancel_event /\ "reopen_event" \notin EventFormFields

\* variant of update: the form has both flags, and the reopen branch is
\* tested before the cancel branch
update_reopen_first(u, e, f) ==
    /\ pc = "idle"
    /\ e \in DOMAIN events
    /\ UNCHANGED <<now, restocked, sessions>>
    /\ IF ~EventFormValid(f)
       THEN /\ UNCHANGED <<events, orders, cancelled>>
            /\ pc' = "live_status"
            /\ last' = "update invalid"
       ELSE LET g == IF f.reopen_event /\ events[e].status = CANCELLED
                     THEN [f EXCEPT !.cancel_event = FALSE] ELSE f
            IN /\ Updated(events, orders, e, g).events[e].total_tickets
                        \in (-MaxStock) .. MaxStock
               /\ events' = Updated(events, orders, e, g).events
               /\ orders' = Updated(events, orders, e, g).orders
               /\ cancelled' = cancelled \cup Cancelled(orders')
               /\ pc' = "live_status"
               /\ last' = "update ok"

update(u, e, f) ==
    /\ pc = "idle"
    /\ e \in DOMAIN events
    /\ UNCHANGED <<now, restocked, sessions>>
    /\ IF ~EventFormValid(f)
       THEN \* lines 161-162
            /\ UNCHANGED <<events, orders, cancelled>>
            /\ pc' = "live_status"
            /\ last' = "update invalid"
       ELSE IF Raises(f)
       THEN \* lines 100-120, then server_error: rollback
            /\ UNCHANGED <<events, orders, cancelled>>
            /\ pc' = "idle"
            /\ last' = "update error"
       ELSE \* lines 100-159
            /\ Updated(events, orders, e, f).events[e].total_tickets
                    \in (-MaxStock) .. MaxStock
            /\ events' = Updated(events, orders, e, f).events
            /\ orders' = Updated(events, orders, e, f).orders
            /\ cancelled' = cancelled \cup Cancelled(orders')
            /\ pc' = "live_status"
            /\ last' = "update ok"

\* ------------------------------------------------------------- the clock
Tick ==
    /\ pc = "idle"
    /\ now < MaxTime
    /\ now' = now + 1
    /\ last' = "tick"
    /\ UNCHANGED <<events, orders, pc, restocked, cancelled, sessions>>

\* --------------------------------------------------------- specification
\* __init__.py 19: the application on an empty database
Init ==
    /\ events = <<>>
    /\ orders = <<>>
    /\ now = 0
    /\ pc = "idle"
    /\ last = "none"
    /\ restocked = {}
    /\ cancelled = Cancelled(orders)
    /\ sessions = [r \in Requests |-> NoRequest]

Next ==
    \/ Tick
    \/ live_status
    \/ \E u \in Users, f \in CreateForms : create(u, f)
    \/ \E u \in Users, e \in EventIds, f \in CancelForms : update(u, e, f)
    \/ \E u \in Users, e \in EventIds, q \in QtyInputs : purchase_tickets(u, e, q)
    \/ \E u \in Users, o \in 1 .. MaxOrders : cancel_order(u, o)

Spec == Init /\ [][Next]_vars

\* ------------------------------------------ the status engine on any store
\* live_status() reads whatever rows the store holds: every status the
\* columns admit (models.py 22-32, 60, 65, 93), on either side of end_time
StoredEvents ==
    [status : EventStatus, status_date : {0}, total_tickets : {-1, 0, 1},
     ticket_price : Prices, start_time : {0}, end_time : EndInputs,
     creator_id : Users]

StoredOrders ==
    [event_id : EventIds, user_id : Users, tickets_purchased : {1},
     purchase_ticket_price : Prices, purchased_amount : Prices,
     ticket_status : TicketStatus]

InitEngine ==
    /\ events \in [EventIds -> StoredEvents]
    /\ orders \in UNION {[1 .. n -> StoredOrders] : n \in 0 .. MaxOrders}
    /\ now \in 0 .. MaxTime
    /\ pc = "idle"
    /\ last = "none"
    /\ restocked = {}
    /\ cancelled = Cancelled(orders)
    /\ sessions = [r \in Requests |-> NoRequest]

NextEngine ==
    \/ Tick
    \/ live_status

SpecEngine == InitEngine /\ [][NextEngine]_vars

\* ------------------------------------------- the handlers on a stored event
\* the store as a request may find it: one event in any status the column
\* admits (models.py 65), created by the user of the requests or by another
\* user (models.py 67), and at most one order on it (models.py 87-98), bought
\* by the user of the requests or by another user (models.py 97)
HeldEvents ==
    [status : EventStatus, status_date : {0}, total_tickets : {0, 2},
     ticket_price : Prices, end_time : {1}, creator_id : {1, 2}]

HeldOrders ==
    [event_id : {1}, user_id : {1, 2}, tickets_purchased : {1},
     purchase_ticket_price : Prices, purchased_amount : Prices,
     ticket_status : TicketStatus]

InitStore ==
    /\ events \in [{1} -> HeldEvents]
    /\ orders \in {<<>>} \cup [{1} -> HeldOrders]
    /\ now = 0
    /\ pc = "idle"
    /\ last = "none"
    /\ restocked = {}
    /\ cancelled = Cancelled(orders)
    /\ sessions = [r \in Requests |-> NoRequest]

NextStore ==
    \/ Tick
    \/ \E raised \in BOOLEAN : LiveStatus(raised)
    \/ \E u \in Users, e \in EventIds, f \in UpdateForms : update(u, e, f)
    \/ \E u \in Users, e \in EventIds, q \in QtyInputs : purchase_tickets(u, e, q)
    \/ \E u \in Users, o \in 1 .. MaxOrders : cancel_order(u, o)

SpecStore == InitStore /\ [][NextStore]_vars

\* the update posts that carry both flags (events.py 120, 147)
BothForms == {f \in UpdateForms : f.cancel_event /\ f.reopen_event}

\* the stored event again, with every update post carrying both flags
NextBoth ==
    \/ Tick
    \/ live_status
    \/ \E u \in Users, e \in EventIds, f \in BothForms : update(u, e, f)
    \/ \E u \in Users, e \in EventIds, q \in QtyInputs : purchase_tickets(u, e, q)
    \/ \E u \in Users, o \in 1 .. MaxOrders : cancel_order(u, o)

SpecBoth == InitStore /\ [][NextBoth]_vars

\* ----------------------- orders.py: purchase_tickets, requests interleaved
\* Each request works in a db.session of its own.  The SELECT of line 41 runs
\* outside any transaction and the row it loads is not locked; the commit of
\* line 79 writes the columns the request has assigned, computed from the row
\* as it was loaded.

\* lines 41-55: load the event, validate the form, compare with the inventory
purchase_load(r, u, e, q) ==
    /\ sessions[r].at = "idle"
    /\ e \in DOMAIN events
    /\ UNCHANGED <<events, orders, now, pc, restocked, cancelled>>
    /\ IF ~PurchaseFormValid(q)
       THEN \* lines 86-87
            /\ sessions' = [sessions EXCEPT ![r] = [at |-> "live_status"]]
            /\ last' = "purchase invalid"
       ELSE IF Insufficient(q, events[e])
       THEN \* lines 50-53
            /\ UNCHANGED sessions
            /\ last' = "purchase insufficient"
       ELSE /\ sessions' = [sessions EXCEPT ![r] =
                    [at |-> "loaded", user_id |-> u, event_id |-> e,
                     tickets |-> q, event |-> events[e]]]
            /\ last' = "purchase loaded"

\* lines 72-79: the UPDATE of the commit sets the columns whose value in the
\* session differs from the loaded one
Flushed(row, loaded, assigned) ==
    [row EXCEPT
        !.total_tickets = IF assigned.total_tickets # loaded.total_tickets
                          THEN assigned.total_tickets ELSE @,
        !.status = IF assigned.status # loaded.status
                   THEN assigned.status ELSE @]

\* lines 57-79: build the order, decrement, commit
purchase_commit(r) ==
    /\ sessions[r].at = "loaded"
    /\ UNCHANGED <<now, pc, restocked, cancelled>>
    /\ LET s == sessions[r] IN
       \/ /\ Len(orders) < MaxOrders
          /\ orders' = Append(orders,
                    NewOrder(s.event_id, s.user_id, s.tickets, s.event))
          /\ events' = [events EXCEPT ![s.event_id] =
                    Flushed(@, s.event, Purchased(s.event, s.tickets))]
          /\ sessions' = [sessions EXCEPT ![r] = [at |-> "live_status"]]
          /\ last' = "purchase ok"
       \* line 79 raises: server_error (__init__.py 55-60) rolls back
       \/ /\ UNCHANGED <<events, orders>>
          /\ sessions' = [sessions EXCEPT ![r] = NoRequest]
          /\ last' = "purchase error"

\* lines 82 and 86: the pass that ends the request
purchase_live_status(r) ==
    /\ sessions[r].at = "live_status"
    /\ LET evs == LiveEvents(events, now) IN
        /\ events' = evs
        /\ orders' = LiveOrders(orders, evs, now)
    /\ cancelled' = cancelled \cup Cancelled(orders')
    /\ sessions' = [sessions EXCEPT ![r] = NoRequest]
    /\ last' = "live_status"
    /\ UNCHANGED <<now, pc, restocked>>

\* the store when the requests arrive: one OPEN event with tickets to sell
OnSale ==
    [status : {OPEN}, status_date : {0}, total_tickets : 1 .. MaxStock,
     ticket_price : Prices, end_time : EndInputs, creator_id : Users]

InitRace ==
    /\ events \in [{1} -> OnSale]
    /\ orders = <<>>
    /\ now = 0
    /\ pc = "idle"
    /\ last = "none"
    /\ restocked = {}
    /\ cancelled = {}
    /\ sessions = [r \in Requests |-> NoRequest]

NextRace ==
    \/ \E r \in Requests, u \in Users, e \in EventIds, q \in QtyInputs :
            purchase_load(r, u, e, q)
    \/ \E r \in Requests : purchase_commit(r)
    \/ \E r \in Requests : purchase_live_status(r)

SpecRace == InitRace /\ [][NextRace]_vars

\* ------------------------------------- the handlers on signed form inputs
\* IntegerField parses a leading minus sign, and DataRequired (forms.py 253,
\* 317-320) turns away only the empty field and 0
SignedForms ==
    [total_tickets : {-1, 0, 1}, ticket_price : Prices, end_time : {1},
     cancel_event : {FALSE}, reopen_event : {FALSE}]

SignedQty == {-1, 0, 1}

NextSigned ==
    \/ Tick
    \/ live_status
    \/ \E u \in Users, f \in SignedForms : create(u, f)
    \/ \E u \in Users, e \in EventIds, q \in SignedQty : purchase_tickets(u, e, q)
    \/ \E u \in Users, o \in 1 .. MaxOrders : cancel_order(u, o)

SpecSigned == Init /\ [][NextSigned]_vars

\* ------------------------------- forms.py: EventForm with title and times
\* The create form with the fields the specifications above leave out: the
\* title and the start time.  Two create requests are served interleaved,
\* each validating its form (events.py 42) before it commits (events.py 65).
\* Here a tick of the clock is half an hour.

\* timedelta(hours=1) of forms.py 312, in ticks
Hour == 2

\* str.lower() and SQL lower() on the characters the titles and the
\* passwords are written in (forms.py 124-126, 284-285)
LowerChar(c) == IF c = "A" THEN "a" ELSE c

Lower(s) == [i \in DOMAIN s |-> LowerChar(s[i])]

\* titles typed into the event form: "Aa", "aa" and "a1"
Titles == {<<"A", "a">>, <<"a", "a">>, <<"a", "1">>}

StartInputs == {1, 2}       \* start_time typed into the event form
LateEndInputs == {2, 3}     \* end_time typed into the event form

TimedForms ==
    [title : Titles, start_time : StartInputs, end_time : LateEndInputs,
     total_tickets : {2}, ticket_price : Prices,
     cancel_event : {FALSE}, reopen_event : {FALSE}]

\* forms.py 279-293: no other stored event has the title, ignoring case;
\* event_id is 0 on create, where the hidden field is empty
validate_title(title, event_id, evs) ==
    ~ \E e \in DOMAIN evs :
        /\ Lower(evs[e].title) = Lower(title)
        /\ (event_id # 0 => e # event_id)

\* forms.py 295-300
validate_start_time(f) == ~ (f.start_time <= now)

\* variant of validate_end_time: any event that ends after it starts
validate_end_time_any_length(f) ==
    /\ ~ (f.end_time <= now)
    /\ ~ (f.end_time <= f.start_time)

\* forms.py 302-314
validate_end_time(f) ==
    /\ ~ (f.end_time <= now)
    /\ ~ (f.end_time <= f.start_time)
    /\ ~ (f.end_time - f.start_time < Hour)

\* events.py 46-62: the row of events.create with its title and start_time
TimedEvent(u, f) ==
    [title |-> f.title, start_time |-> f.start_time] @@ NewEvent(u, f)

\* events.py 33-42, 71: request r validates the form it posts
create_validate(r, u, f) ==
    /\ sessions[r].at = "idle"
    /\ Len(events) + Cardinality({x \in Requests : sessions[x].at = "validated"})
            < Cardinality(EventIds)
    /\ IF /\ EventFormValid(f)
          /\ validate_title(f.title, 0, events)
          /\ validate_start_time(f)
          /\ validate_end_time(f)
       THEN /\ sessions' = [sessions EXCEPT ![r] =
                    [at |-> "validated", user |-> u, form |-> f]]
            /\ last' = "create validated"
       ELSE /\ sessions' = [sessions EXCEPT ![r] = [at |-> "live_status"]]
            /\ last' = "create invalid"
    /\ UNCHANGED <<events, orders, now, pc, restocked, cancelled>>

\* events.py 44-65: request r commits the event of its validated form
create_commit(r) ==
    /\ sessions[r].at = "validated"
    /\ events' = Append(events, TimedEvent(sessions[r].user, sessions[r].form))
    /\ sessions' = [sessions EXCEPT ![r] = [at |-> "live_status"]]
    /\ last' = "create ok"
    /\ UNCHANGED <<orders, now, pc, restocked, cancelled>>

\* events.py 68, 71: the pass that ends request r
create_live_status(r) ==
    /\ sessions[r].at = "live_status"
    /\ LET evs == LiveEvents(events, now) IN
        /\ events' = evs
        /\ orders' = LiveOrders(orders, evs, now)
    /\ cancelled' = cancelled \cup Cancelled(orders')
    /\ sessions' = [sessions EXCEPT ![r] = NoRequest]
    /\ last' = "live_status"
    /\ UNCHANGED <<now, pc, restocked>>

NextForms ==
    \/ Tick
    \/ \E r \in Requests, u \in Users, f \in TimedForms : create_validate(r, u, f)
    \/ \E r \in Requests : create_commit(r)
    \/ \E r \in Requests : create_live_status(r)

SpecForms == Init /\ [][NextForms]_vars

\* ----------------------------------- forms.py: PasswordStrength (register)
\* The characters of the passwords: a lowercase and an uppercase letter, a
\* digit, a punctuation mark and the underscore.
Chars == {"a", "A", "1", "!", "_"}

\* the character sets of the regular expressions of lines 107-110, on Chars
\* and the blank: [a-z], [A-Z], \d, \w and \s
LowerCase == {"a"}
UpperCase == {"A"}
Digits == {"1"}
WordChars == {"a", "A", "1", "_"}
Whitespace == {" "}

\* re.search of a one-character pattern
Search(class, s) == \E i \in DOMAIN s : s[i] \in class

RECURSIVE LStrip(_)
LStrip(s) ==
    IF s # <<>> /\ Head(s) \in Whitespace THEN LStrip(Tail(s)) ELSE s

RECURSIVE RStrip(_)
RStrip(s) ==
    IF s # <<>> /\ s[Len(s)] \in Whitespace
    THEN RStrip(SubSeq(s, 1, Len(s) - 1)) ELSE s

\* str.strip(), line 127
Strip(s) == RStrip(LStrip(s))

\* email.split("@")[0], lines 121-122
LocalPart(email) ==
    IF \E i \in DOMAIN email : email[i] = "@"
    THEN SubSeq(email, 1,
            (CHOOSE i \in DOMAIN email :
                /\ email[i] = "@"
                /\ \A j \in 1 .. (i - 1) : email[j] # "@") - 1)
    ELSE email

\* t in low, line 128
Contains(t, low) ==
    \E i \in 0 .. (Len(low) - Len(t)) : SubSeq(low, i + 1, i + Len(t)) = t

\* PasswordStrength(min_length=8), line 368
min_length == 8

\* lines 102-130: TRUE when the validator raises no ValidationError; the
\* fourth class is [^\w\s], a character that is no word character and no
\* blank
PasswordStrength(form, pwd) ==
    LET classes ==
            (IF Search(LowerCase, pwd) THEN 1 ELSE 0)
          + (IF Search(UpperCase, pwd) THEN 1 ELSE 0)
          + (IF Search(Digits, pwd) THEN 1 ELSE 0)
          + (IF Search((Chars \cup Whitespace) \ (WordChars \cup Whitespace), pwd)
             THEN 1 ELSE 0)
        blocked == {form.first_name, form.surname, LocalPart(form.email)}
    IN /\ ~ (Len(pwd) < min_length)
       /\ ~ (classes < 3)
       /\ \A token \in blocked :
            LET t == Strip(Lower(token)) IN
            ~ (t # <<>> /\ Len(t) >= 3 /\ Contains(t, Lower(pwd)))

\* the passwords typed: one of two beginnings followed by any 3 or 4
\* characters, so 7 or 8 characters long
Passwords ==
    {h \o t : h \in {<<"a", "a", "a", "a">>, <<"1", "_", "1", "_">>},
              t \in UNION {[1 .. n -> Chars] : n \in {3, 4}}}

\* the register forms posted: names of 2 and of 3 letters ("aA", "aAa";
\* "Aa"), emails with a local part of 2 and of 3 characters ("a1", "a1a");
\* every field but the password passes its own validators
RegisterForms ==
    [first_name : {<<"a", "A">>, <<"a", "A", "a">>},
     surname : {<<"A", "a">>},
     email : {<<"a", "1", "@", "a">>, <<"a", "1", "a", "@", "a">>},
     password : Passwords]

\* auth.py 57-79: request 1 posts the form; the user table is not modelled,
\* the outcome is whether the form validated
register(f) ==
    /\ sessions[1].at = "idle"
    /\ sessions' = [sessions EXCEPT ![1] = [at |-> "register", form |-> f]]
    /\ last' = IF PasswordStrength(f, f.password)
               THEN "register ok" ELSE "register invalid"
    /\ UNCHANGED <<events, orders, now, pc, restocked, cancelled>>

\* auth.py 77, 79: the response is sent
register_done ==
    /\ sessions[1].at = "register"
    /\ sessions' = [sessions EXCEPT ![1] = NoRequest]
    /\ UNCHANGED <<events, orders, now, pc, last, restocked, cancelled>>

NextRegister ==
    \/ \E f \in RegisterForms : register(f)
    \/ register_done

SpecRegister == Init /\ [][NextRegister]_vars

\* ------------------------------------ events.py: update, GET and then POST
\* lines 83-85, 161-162: request r asks for the update page of event e; the
\* form it gets shows the event's fields as they are stored now
update_form(r, e) ==
    /\ pc = "idle"
    /\ e \in DOMAIN events
    /\ sessions' = [sessions EXCEPT ![r] =
            [at |-> "form", event_id |-> e,
             total_tickets |-> events[e].total_tickets]]
    /\ pc' = "live_status"
    /\ last' = "update form"
    /\ UNCHANGED <<events, orders, now, restocked, cancelled>>

\* an event on sale; the creator opens its update page and posts it later,
\* while tickets are bought and orders cancelled
NextEdit ==
    \/ Tick
    \/ live_status
    \/ \E e \in EventIds : update_form(1, e)
    \/ \E u \in Users, e \in EventIds, f \in UpdateForms : update(u, e, f)
    \/ \E u \in Users, e \in EventIds, q \in QtyInputs : purchase_tickets(u, e, q)
    \/ \E u \in Users, o \in 1 .. MaxOrders : cancel_order(u, o)

SpecEdit == InitRace /\ [][NextEdit]_vars

\* ------------------------- events.py: live_status, served with other requests
\* the assignments a session holds for its commit: <<id, column, value>> for
\* each column of each row whose value in rows differs from the loaded one
Dirty(loaded, rows) ==
    UNION {{<<id, c, rows[id][c]>> :
                c \in {x \in DOMAIN loaded[id] : rows[id][x] # loaded[id][x]}} :
           id \in DOMAIN loaded}

\* the UPDATEs of a commit, on the rows as they are stored by then
Written(stored, writes) ==
    [id \in DOMAIN stored |->
        [c \in DOMAIN stored[id] |->
            IF \E w \in writes : w[1] = id /\ w[2] = c
            THEN (CHOOSE w \in writes : w[1] = id /\ w[2] = c)[3]
            ELSE stored[id][c]]]

\* lines 198-261: request r takes the time, loads every event and order and
\* runs the two loops on them
live_status_load(r) ==
    /\ sessions[r].at = "idle"
    /\ LET evs == LiveEvents(events, now) IN
       sessions' = [sessions EXCEPT ![r] =
            [at |-> "pass",
             events |-> Dirty(events, evs),
             orders |-> Dirty(orders, LiveOrders(orders, evs, now))]]
    /\ last' = "live_status loaded"
    /\ UNCHANGED <<events, orders, now, pc, restocked, cancelled>>

\* line 264, some time after the load; stale: the commit has set a status
\* that a pass on the rows as stored by then would not set
live_status_commit(r) ==
    /\ sessions[r].at = "pass"
    /\ events' = Written(events, sessions[r].events)
    /\ orders' = Written(orders, sessions[r].orders)
    /\ sessions' = [sessions EXCEPT ![r] =
            [at |-> "idle",
             stale |->
                \/ \E e \in DOMAIN events :
                    /\ events'[e].status # events[e].status
                    /\ events'[e].status # EventNewStatus(events[e], now)
                \/ \E i \in DOMAIN orders :
                    /\ orders'[i].ticket_status # orders[i].ticket_status
                    /\ orders'[i] # LiveOrders(orders, LiveEvents(events, now), now)[i]]]
    /\ cancelled' = cancelled \cup Cancelled(orders')
    /\ last' = "live_status interleaved"
    /\ UNCHANGED <<now, pc, restocked>>

\* the store when the requests arrive: one OPEN event with tickets to sell
\* that ends at time 1
InitHeal ==
    /\ events \in [{1} -> {ev \in OnSale : ev.total_tickets <= 2 /\ ev.end_time = 1}]
    /\ orders = <<>>
    /\ now = 0
    /\ pc = "idle"
    /\ last = "none"
    /\ restocked = {}
    /\ cancelled = {}
    /\ sessions = [r \in Requests |-> NoRequest]

\* purchases and order cancellations are served while request 1 runs its
\* pass; live_status is a pass nothing interrupts
NextHeal ==
    \/ Tick
    \/ live_status
    \/ live_status_load(1)
    \/ live_status_commit(1)
    \/ \E u \in Users, e \in EventIds, q \in QtyInputs : purchase_tickets(u, e, q)
    \/ \E u \in Users, o \in 1 .. MaxOrders : cancel_order(u, o)

SpecHeal == InitHeal /\ [][NextHeal]_vars

\* ------------------------------------------------------------------ claims

C2_InsufficientNoChange ==
    [][\A u \in Users, e \in EventIds, q \in QtyInputs :
        (/\ last' \in {"purchase invalid", "purchase insufficient",
                      "purchase ok", "purchase error"}
         /\ e \in DOMAIN events
         /\ q > events[e].total_tickets
         /\ purchase_tickets(u, e, q)) =>
            (events' = events /\ orders' = orders)]_vars

\* a request has just been turned away by an OPEN event that holds 1 ticket,
\* the other one being sold: only 2 tickets are more than it holds
C2_Witness ==
    /\ last = "purchase insufficient"
    /\ pc = "idle"
    /\ Len(events) = 1
    /\ events[1].total_tickets = 1
    /\ events[1].status = OPEN
    /\ Len(orders) = 1
    /\ orders[1].ticket_status = ACTIVE

\* C3: cancel_order adds an order's tickets_purchased to its event's
\* total_tickets exactly once: the first cancel_order on the order adds them,
\* every later cancel_order on it leaves total_tickets as it is.
C3_CancelRestocksOnce ==
    [][\A u \in Users, o \in 1 .. MaxOrders :
        (last' # "cancel_order error" /\ cancel_order(u, o)) =>
            events'[orders[o].event_id].total_tickets =
                events[orders[o].event_id].total_tickets
                + (IF o \in restocked THEN 0 ELSE orders[o].tickets_purchased)]_vars

\* C4: cancelling an event that is not CANCELLED adds to total_tickets the
\* sum of tickets_purchased over its ACTIVE orders, sets each of those orders
\* to CANCELLED and leaves every other order's ticket_status as it is.
C4_CancelEventRestocks ==
    [][\A u \in Users, e \in EventIds, f \in UpdateForms :
        (/\ update(u, e, f)
         /\ EventFormValid(f)
         /\ f.cancel_event
         /\ events[e].status # CANCELLED) =>
            /\ events'[e].total_tickets =
                f.total_tickets
                + SumOver(orders, ActiveOrders(orders, e), "tickets_purchased")
            /\ \A i \in DOMAIN orders :
                orders'[i].ticket_status =
                    IF i \in ActiveOrders(orders, e) THEN CANCELLED
                    ELSE orders[i].ticket_status]_vars

\* C5: after the creator cancels an event whose status is not CANCELLED, the
\* event's stored status is CANCELLED.
C5_CancelSetsCancelled ==
    [][\A u \in Users, e \in EventIds, f \in UpdateForms :
        (/\ update(u, e, f)
         /\ EventFormValid(f)
         /\ f.cancel_event
         /\ events[e].status # CANCELLED) =>
            events'[e].status = CANCELLED]_vars

\* C6: in every committed state no order is ACTIVE while its event is
\* CANCELLED or INACTIVE.
C6_NoActiveOrderOnDeadEvent ==
    \A i \in DOMAIN orders :
        orders[i].ticket_status = ACTIVE =>
            events[orders[i].event_id].status \notin {CANCELLED, INACTIVE}

\* C7: after a pass at time now every event's status is the priority rule
\* applied to the event as it was before the pass: CANCELLED if it was
\* CANCELLED and now <= end_time, INACTIVE if it was CANCELLED and
\* now > end_time, otherwise SOLDOUT if total_tickets <= 0, otherwise OPEN if
\* now <= end_time, otherwise INACTIVE.
C7_EventStatusRule ==
    [][live_status =>
        \A e \in DOMAIN events :
            LET was == events[e]
                rule == CASE was.status = CANCELLED /\ now <= was.end_time -> CANCELLED
                          [] was.status = CANCELLED /\ now > was.end_time -> INACTIVE
                          [] was.status # CANCELLED /\ was.total_tickets <= 0 -> SOLDOUT
                          [] was.status # CANCELLED /\ was.total_tickets > 0
                                /\ now <= was.end_time -> OPEN
                          [] OTHER -> INACTIVE
            IN events'[e].status = rule]_vars

\* a pass has just run past the end of an event that holds no tickets and is
\* INACTIVE, not SOLDOUT: it was CANCELLED before the pass
C7_Witness ==
    /\ last = "live_status"
    /\ \E e \in DOMAIN events :
        /\ events[e].status = INACTIVE
        /\ events[e].total_tickets <= 0
        /\ now > events[e].end_time
    /\ \E e \in DOMAIN events :
        events[e].status = SOLDOUT /\ now > events[e].end_time

\* C8: a pass keeps every event and every order, and gives each order the
\* ticket_status its rule derives from the status its event has after the
\* same pass: CANCELLED if the event is CANCELLED, INACTIVE if it is INACTIVE,
\* otherwise a CANCELLED order stays CANCELLED while now <= end_time and is
\* INACTIVE after, otherwise ACTIVE if now <= end_time, else INACTIVE.
C8_OrderStatusRule ==
    [][live_status =>
        /\ DOMAIN events' = DOMAIN events
        /\ DOMAIN orders' = DOMAIN orders
        /\ \A i \in DOMAIN orders :
            LET fresh == events'[orders[i].event_id]
                rule == CASE fresh.status = CANCELLED -> CANCELLED
                          [] fresh.status = INACTIVE -> INACTIVE
                          [] fresh.status \in {OPEN, SOLDOUT}
                                /\ orders[i].ticket_status = CANCELLED ->
                                (IF now <= fresh.end_time THEN CANCELLED ELSE INACTIVE)
                          [] OTHER ->
                                (IF now <= fresh.end_time THEN ACTIVE ELSE INACTIVE)
            IN orders'[i].ticket_status = rule]_vars

\* a pass has just run: one order is INACTIVE on an event that holds no
\* tickets and is INACTIVE (it was CANCELLED before the pass), another order
\* stays CANCELLED on an OPEN event
C8_Witness ==
    /\ last = "live_status"
    /\ \E i \in DOMAIN orders :
        /\ orders[i].ticket_status = INACTIVE
        /\ events[orders[i].event_id].status = INACTIVE
        /\ events[orders[i].event_id].total_tickets <= 0
    /\ \E i \in DOMAIN orders :
        /\ orders[i].ticket_status = CANCELLED
        /\ events[orders[i].event_id].status = OPEN

\* C9: a second pass right after a pass, at the same clock value, changes no
\* event status and no order ticket_status.
C9_Idempotent ==
    [][(last = "live_status" /\ live_status) =>
        /\ \A e \in DOMAIN events : events'[e].status = events[e].status
        /\ \A i \in DOMAIN orders :
            orders'[i].ticket_status = orders[i].ticket_status]_vars

\* C10: a successful purchase that leaves the event with exactly 0 tickets
\* commits the event as SOLDOUT together with the order, before the pass
\* that follows.
C10_SoldOutAtCommit ==
    [][\A u \in Users, e \in EventIds, q \in QtyInputs :
        (/\ last' = "purchase ok"
         /\ purchase_tickets(u, e, q)
         /\ events'[e].total_tickets = 0) =>
            (events'[e].status = SOLDOUT /\ pc' = "live_status")]_vars

\* the last 2 tickets of an event have just been bought and the pass of the
\* purchase handler has not run yet
C10_Witness ==
    /\ last = "purchase ok"
    /\ pc = "live_status"
    /\ \E e \in DOMAIN events :
        /\ events[e].total_tickets = 0
        /\ events[e].status = SOLDOUT
        /\ orders[Len(orders)].event_id = e
        /\ orders[Len(orders)].tickets_purchased = 2

\* C11: cancellation is sticky: an event that is CANCELLED stays CANCELLED in
\* the next state as long as now <= end_time, whatever its total_tickets,
\* unless the step is a reopen by its creator; a pass with now > end_time
\* makes it INACTIVE.
C11_CancelledSticky ==
    [][\A e \in DOMAIN events :
        (/\ events[e].status = CANCELLED
         /\ ~(\E u \in Users, f \in UpdateForms :
                /\ f.reopen_event
                /\ last' = "update ok"
                /\ update(u, e, f))) =>
            /\ (now' <= events'[e].end_time) => events'[e].status = CANCELLED
            /\ (last' = "live_status" /\ now > events[e].end_time) =>
                    events'[e].status = INACTIVE]_vars

\* C13: a reopen request sets a CANCELLED event to OPEN and leaves the status
\* of an OPEN, SOLDOUT or INACTIVE event as it is.
C13_ReopenOnlyCancelled ==
    [][\A u \in Users, e \in EventIds, f \in UpdateForms :
        (/\ e \in DOMAIN events
         /\ f.reopen_event
         /\ ~f.cancel_event
         /\ EventFormValid(f)
         /\ update(u, e, f)) =>
            events'[e].status =
                IF events[e].status = CANCELLED THEN OPEN ELSE events[e].status]_vars

\* C14: a cancel request on an event that is already CANCELLED restocks no
\* ticket and changes no order, and the field edits posted with it are
\* committed.
C14_RecancelKeepsLedger ==
    [][\A u \in Users, e \in EventIds, f \in UpdateForms :
        (/\ e \in DOMAIN events
         /\ f.cancel_event
         /\ EventFormValid(f)
         /\ events[e].status = CANCELLED
         /\ update(u, e, f)) =>
            /\ events'[e] = Edited(events[e], f)
            /\ orders' = orders]_vars

\* C19: an update, cancel or reopen request of a user who is not the event's
\* creator is turned away and changes no event and no order.
C19_CreatorOnly ==
    [][\A u \in Users, e \in EventIds, f \in UpdateForms :
        (/\ e \in DOMAIN events
         /\ u # events[e].creator_id
         /\ update(u, e, f)) =>
            /\ last' = "update denied"
            /\ events' = events
            /\ orders' = orders]_vars

\* C16: inventory is conserved: for every event, total_tickets plus the
\* tickets_purchased of its orders that no cancellation has restocked is the
\* same after every step (update commits no edit of total_tickets), hence
\* equal to the total_tickets the event was created with.
C16_InventoryConserved ==
    [][\A e \in DOMAIN events :
        events'[e].total_tickets
            + SumOver(orders', {i \in DOMAIN orders' :
                    orders'[i].event_id = e /\ i \notin restocked'},
                "tickets_purchased")
        = events[e].total_tickets
            + SumOver(orders, {i \in DOMAIN orders :
                    orders[i].event_id = e /\ i \notin restocked},
                "tickets_purchased")]_vars

\* C18: an order keeps the purchase_ticket_price, purchased_amount and
\* tickets_purchased it was created with: no step changes them.
C18_OrderSnapshotKept ==
    [][\A i \in DOMAIN orders :
        /\ i \in DOMAIN orders'
        /\ orders'[i].purchase_ticket_price = orders[i].purchase_ticket_price
        /\ orders'[i].purchased_amount = orders[i].purchased_amount
        /\ orders'[i].tickets_purchased = orders[i].tickets_purchased]_vars

\* an order of 2 tickets for 4 has been cancelled and restocked, its event has
\* ended and a pass has made the order INACTIVE: the snapshot is as bought
C18_Witness ==
    /\ last = "live_status"
    /\ \E i \in restocked :
        /\ orders[i].ticket_status = INACTIVE
        /\ orders[i].tickets_purchased = 2
        /\ orders[i].purchase_ticket_price = 2
        /\ orders[i].purchased_amount = 4

\* C20: every ledger operation is atomic.  A purchase that reaches its commit
\* either leaves the store as it was or commits the new order together with
\* the decrement of its event; so does a cancel_order with the CANCELLED order
\* and its restock; an update that passes validation either cancels none of
\* the event's ACTIVE orders and restocks nothing, or cancels all of them and
\* restocks their sum; a step whose commit raised leaves the store as it was.
C20_LedgerAtomic ==
    [][/\ (last' \in {"purchase ok", "purchase error"}) =>
            \A u \in Users, e \in EventIds, q \in QtyInputs :
                purchase_tickets(u, e, q) =>
                    \/ events' = events /\ orders' = orders
                    \/ /\ Len(orders') = Len(orders) + 1
                       /\ SubSeq(orders', 1, Len(orders)) = orders
                       /\ orders'[Len(orders')].event_id = e
                       /\ orders'[Len(orders')].tickets_purchased = q
                       /\ events'[e].total_tickets = events[e].total_tickets - q
                       /\ \A d \in DOMAIN events \ {e} : events'[d] = events[d]
       /\ (last' \in {"cancel_order cancelled", "cancel_order error"}) =>
            \A u \in Users, o \in 1 .. MaxOrders :
                cancel_order(u, o) =>
                    \/ events' = events /\ orders' = orders
                    \/ /\ orders[o].ticket_status # CANCELLED
                       /\ orders' = [orders EXCEPT ![o].ticket_status = CANCELLED]
                       /\ events' = [events EXCEPT
                            ![orders[o].event_id].total_tickets =
                                @ + orders[o].tickets_purchased]
       /\ (last' \in {"update error", "update ok"}) =>
            \A u \in Users, e \in EventIds, f \in UpdateForms :
                update(u, e, f) =>
                    \/ /\ orders' = orders
                       /\ events'[e].total_tickets \in
                            {events[e].total_tickets, f.total_tickets}
                    \/ /\ \A i \in DOMAIN orders : orders'[i].ticket_status =
                            IF i \in ActiveOrders(orders, e) THEN CANCELLED
                            ELSE orders[i].ticket_status
                       /\ events'[e].total_tickets = f.total_tickets
                            + SumOver(orders, ActiveOrders(orders, e),
                                      "tickets_purchased")
       /\ (last' \in {"purchase error", "cancel_order error", "update error"}) =>
            (events' = events /\ orders' = orders)]_vars

\* the commit of a cancel_order has just raised: the order of 2 tickets is
\* still ACTIVE and its event still holds none, as the purchase committed them
C20_Witness ==
    /\ last = "cancel_order error"
    /\ \E i \in DOMAIN orders :
        /\ orders[i].ticket_status = ACTIVE
        /\ orders[i].tickets_purchased = 2
        /\ events[orders[i].event_id].total_tickets = 0
        /\ events[orders[i].event_id].status = SOLDOUT
        /\ i \notin restocked

C15_RaceGuarded ==
    [][\A e \in DOMAIN events :
        /\ events'[e].total_tickets >= 0
        /\ events'[e].total_tickets
                + SumOver(orders', {i \in DOMAIN orders' : orders'[i].event_id = e},
                          "tickets_purchased")
           = events[e].total_tickets
                + SumOver(orders, {i \in DOMAIN orders : orders[i].event_id = e},
                          "tickets_purchased")]_vars

\* C17: in every reachable state every event's total_tickets is an integer
\* >= 0, whatever create, update, purchase and cancel requests that pass form
\* validation have been served.
C17_StockNotNegative ==
    \A e \in DOMAIN events : events[e].total_tickets \in Nat

\* C25: status_date is the time of the last status transition: a step that
\* changes an event's status (a pass, a purchase that sells the event out, a
\* reopen) sets status_date to the time of the step, and a step that leaves
\* the status as it is leaves status_date as it is.
C25_StatusDateStamped ==
    [][\A e \in DOMAIN events :
        IF events'[e].status # events[e].status
        THEN events'[e].status_date = now'
        ELSE events'[e].status_date = events[e].status_date]_vars

\* C27: a purchase creates an order and takes inventory only when the event
\* is OPEN and now <= end_time.
C27_PurchaseOnlyWhenOpen ==
    [][(last' = "purchase ok") =>
        \A u \in Users, e \in EventIds, q \in QtyInputs :
            purchase_tickets(u, e, q) =>
                (events[e].status = OPEN /\ now <= events[e].end_time)]_vars

\* C28: every order has tickets_purchased >= 1 and purchased_amount >= 0: a
\* purchase request with a quantity of 0 or less creates no order.
C28_OrderQuantityPositive ==
    \A i \in DOMAIN orders :
        orders[i].tickets_purchased >= 1 /\ orders[i].purchased_amount >= 0

\* C30: a cancel_order request of a user who does not own the order changes
\* neither the order's ticket_status nor its event's total_tickets.
C30_CancelOrderOwnerOnly ==
    [][\A u \in Users, o \in 1 .. MaxOrders :
        (/\ o \in DOMAIN orders
         /\ orders[o].user_id # u
         /\ cancel_order(u, o)) =>
            /\ orders'[o].ticket_status = orders[o].ticket_status
            /\ events'[orders[o].event_id].total_tickets =
                    events[orders[o].event_id].total_tickets]_vars

\* C21: when the commit that ends a pass fails, the whole batch is rolled
\* back: no event status, no status_date and no order ticket_status that the
\* pass computed is in the store.
C21_PassRolledBack ==
    [][(last' = "live_status error") =>
        /\ \A e \in DOMAIN events :
            /\ events'[e].status = events[e].status
            /\ events'[e].status_date = events[e].status_date
        /\ \A i \in DOMAIN orders :
            orders'[i].ticket_status = orders[i].ticket_status]_vars

\* the commit of a pass has just failed; the pass had a new status for an
\* event and a new ticket_status for an order, and the store has neither
C21_Witness ==
    /\ last = "live_status error"
    /\ \E e \in DOMAIN events :
        EventNewStatus(events[e], now) # events[e].status
    /\ \E i \in DOMAIN orders :
        LiveOrders(orders, LiveEvents(events, now), now)[i].ticket_status
            # orders[i].ticket_status

\* C22: in every reachable state no two stored events have the same title
\* ignoring case, also when the title check and the commit of two requests
\* interleave; and the title check accepts each stored event's own title for
\* an update of that event.
C22_TitlesUnique ==
    /\ \A e1, e2 \in DOMAIN events :
        e1 # e2 => Lower(events[e1].title) # Lower(events[e2].title)
    /\ \A e \in DOMAIN events : validate_title(events[e].title, e, events)

\* C23: every stored event ends after it starts and lasts at least an hour:
\* a create request whose start_time is not after now, whose end_time is not
\* after now or not after start_time, or whose duration is under an hour is
\* rejected and never reaches its commit.
C23_TimesValid ==
    [][/\ \A e \in DOMAIN events' :
            /\ events'[e].end_time > events'[e].start_time
            /\ events'[e].end_time - events'[e].start_time >= Hour
       /\ \A r \in Requests, u \in Users, f \in TimedForms :
            (/\ create_validate(r, u, f)
             /\ \/ f.start_time <= now
                \/ f.end_time <= now
                \/ f.end_time <= f.start_time
                \/ f.end_time - f.start_time < Hour) =>
                /\ last' = "create invalid"
                /\ sessions'[r].at = "live_status"
                /\ events' = events]_vars

\* an event of exactly one hour has just been committed, while the other
\* request has had its form rejected and is on its way out
C23_Witness ==
    /\ last = "create ok"
    /\ \E e \in DOMAIN events :
        events[e].end_time - events[e].start_time = Hour
    /\ Len(events) = 1
    /\ \A r \in Requests : sessions[r].at = "live_status"

\* C24: the password validator accepts a password exactly when it has at
\* least 8 characters, at least 3 of the 4 classes lowercase letter,
\* uppercase letter, digit and symbol (a character that is no letter, no
\* digit and no blank) occur in it, and it contains, ignoring case, none of
\* first name, surname and email local part that are 3 characters or longer.
C24_PasswordRule ==
    sessions[1].at = "register" =>
        LET form == sessions[1].form
            pwd == form.password
            classes == {c \in {{"a"}, {"A"}, {"1"}, {"!", "_"}} :
                            \E i \in DOMAIN pwd : pwd[i] \in c}
            names == {n \in {form.first_name, form.surname, LocalPart(form.email)} :
                            Len(n) >= 3}
        IN (last = "register ok") <=>
            /\ Len(pwd) >= 8
            /\ Cardinality(classes) >= 3
            /\ \A n \in names : ~ Contains(Lower(n), Lower(pwd))

C31_OrdersInactiveAfterEnd ==
    [][live_status =>
        \A i \in DOMAIN orders :
            now > events[orders[i].event_id].end_time =>
                orders'[i].ticket_status = INACTIVE]_vars

\* a pass has just run after the end of two events: one is SOLDOUT and one
\* is INACTIVE, and each has an order, which is INACTIVE
C31_Witness ==
    /\ last = "live_status"
    /\ \E i, j \in DOMAIN orders :
        /\ now > events[orders[i].event_id].end_time
        /\ now > events[orders[j].event_id].end_time
        /\ events[orders[i].event_id].status = SOLDOUT
        /\ events[orders[j].event_id].status = INACTIVE
        /\ orders[i].ticket_status = INACTIVE
        /\ orders[j].ticket_status = INACTIVE

\* C33: a pass changes nothing but Event.status, Event.status_date and
\* Order.ticket_status: every other column of every event and order is as it
\* was, and no event or order is created or deleted.
C33_PassFrame ==
    [][live_status =>
        /\ DOMAIN events' = DOMAIN events
        /\ DOMAIN orders' = DOMAIN orders
        /\ \A e \in DOMAIN events :
            [events'[e] EXCEPT !.status = events[e].status,
                               !.status_date = events[e].status_date] = events[e]
        /\ \A i \in DOMAIN orders :
            [orders'[i] EXCEPT !.ticket_status = orders[i].ticket_status]
                = orders[i]]_vars

\* a pass has just changed the status of an event that holds a negative
\* total_tickets, and an order of a paid amount is INACTIVE
C33_Witness ==
    /\ last = "live_status"
    /\ \E e \in DOMAIN events :
        /\ events[e].status_date = now
        /\ now > 0
        /\ events[e].total_tickets < 0
    /\ \E i \in DOMAIN orders :
        /\ orders[i].ticket_status = INACTIVE
        /\ orders[i].purchased_amount > 0

====
